---- MODULE Spec2Model ----
(***************************************************************************)
(* A model of wpr (src/wpr.js): the recursive directory scan under the     *)
(* blacklist/whitelist rules, the interactive selection loop, the filename *)
(* derivation and the assembly of the Markdown document.                   *)
(*                                                                         *)
(* Strings are sequences of one-character strings, so that substring,      *)
(* prefix, case folding and truncation are computed and not assumed.       *)
(***************************************************************************)
EXTENDS Integers, Sequences, FiniteSets, TLC

VARIABLES
    argv,           \* the mode flags among process.argv
    pc,             \* position of main()
    linkInPath,     \* `command -v wpr` succeeds
    confFile,       \* <cwd>/wpr.conf: <<>> absent, <<c>> present with content c
    tree,           \* the directory listing of <cwd> (entries with children)
    disk,           \* content of every file of the tree, by relative path
    unreadable,     \* directories whose readdir fails
    config,         \* const config
    allFiles,       \* const allFiles (full paths)
    fuse,           \* the list the Fuse instance indexes
    input,          \* what the prompt last passed to source: <<>> or <<s>>
    choices,        \* the list the autocomplete prompt currently offers
    file,           \* the answer of the last autocomplete prompt
    selectedFiles,
    addingFiles,
    userPrompt,
    filename,
    content,        \* the Markdown content under construction
    readIdx,        \* position of the for-of loop over selectedFiles
    outFiles,       \* documents written under <cwd>/wpr/, in write order
    effects,        \* which outward operations the run has performed
    failure         \* the rejection that ended the run, "" when none

vars == <<argv, pc, linkInPath, confFile, tree, disk, unreadable, config,
          allFiles, fuse, input, choices, file, selectedFiles, addingFiles,
          userPrompt, filename, content, readIdx, outFiles, effects, failure>>

----------------------------------------------------------------------------
(* Strings *)

\* String.prototype.startsWith
StartsWith(s, w) ==
    /\ Len(w) <= Len(s)
    /\ SubSeq(s, 1, Len(w)) = w

\* String.prototype.indexOf, zero-based, -1 when absent
IndexOf(s, b) ==
    LET hits == {i \in 0..(Len(s) - Len(b)) : SubSeq(s, i + 1, i + Len(b)) = b}
    IN IF hits = {} THEN -1
       ELSE CHOOSE i \in hits : \A j \in hits : i <= j

\* String.prototype.includes
Includes(s, b) == IndexOf(s, b) >= 0

\* Array.prototype.includes
ArrayIncludes(arr, x) == \E i \in 1..Len(arr) : arr[i] = x

Sep == "/"

\* path.join(dirPath, name) for a plain entry name
PathJoin(dirPath, name) == dirPath \o <<Sep>> \o name

\* path.relative(from, to) for a path `to` below `from`
PathRelative(from, to) ==
    IF to = from THEN <<>>
    ELSE SubSeq(to, Len(from) + 2, Len(to))

\* process.cwd()
Cwd == <<Sep, "w">>

\* allFiles.map(f => path.relative(process.cwd(), f))
RelativePaths(files) == [i \in 1..Len(files) |-> PathRelative(Cwd, files[i])]

UpperCase == <<"A", "B", "C", "D", "E", "F", "G", "H", "I", "J", "K", "L", "M",
               "N", "O", "P", "Q", "R", "S", "T", "U", "V", "W", "X", "Y", "Z">>
LowerCase == <<"a", "b", "c", "d", "e", "f", "g", "h", "i", "j", "k", "l", "m",
               "n", "o", "p", "q", "r", "s", "t", "u", "v", "w", "x", "y", "z">>
Digits == {"0", "1", "2", "3", "4", "5", "6", "7", "8", "9"}

\* String.prototype.toLowerCase, one character
LowerChar(c) ==
    IF \E i \in 1..Len(UpperCase) : UpperCase[i] = c
      THEN LowerCase[CHOOSE i \in 1..Len(UpperCase) : UpperCase[i] = c]
      ELSE c

\* String.prototype.toLowerCase
ToLowerCase(s) == [i \in 1..Len(s) |-> LowerChar(s[i])]

\* the character class [a-z0-9]
IsAlnum(c) == c \in {LowerCase[i] : i \in 1..Len(LowerCase)} \cup Digits

\* the characters String.prototype.trim removes
IsSpace(c) == c \in {" ", "\t", "\n"}

\* input.trim() === ''
TrimIsEmpty(s) == \A i \in 1..Len(s) : IsSpace(s[i])

----------------------------------------------------------------------------
(* getAllFiles *)

\* config.whitelist.some(w => relPath.startsWith(w))
IsWhitelisted(relPath, cfg) ==
    \E i \in 1..Len(cfg.whitelist) : StartsWith(relPath, cfg.whitelist[i])

\* IsBlacklisted letting a whitelisted path through
IsBlacklistedUnlessWhitelisted(relPath, cfg) ==
    /\ \E i \in 1..Len(cfg.blacklist) : Includes(relPath, cfg.blacklist[i])
    /\ ~IsWhitelisted(relPath, cfg)

\* the last segment of a relative path: the name of the entry
LastSegment(relPath) ==
    LET seps == {k \in 1..Len(relPath) : relPath[k] = Sep}
    IN IF seps = {} THEN relPath
       ELSE SubSeq(relPath, (CHOOSE k \in seps : \A m \in seps : m <= k) + 1,
                   Len(relPath))

\* IsBlacklisted testing the name of the entry, not its relative path
IsBlacklistedByName(relPath, cfg) ==
    \E i \in 1..Len(cfg.blacklist) : Includes(LastSegment(relPath), cfg.blacklist[i])

\* config.blacklist.some(b => relPath.includes(b))
IsBlacklisted(relPath, cfg) ==
    \E i \in 1..Len(cfg.blacklist) : Includes(relPath, cfg.blacklist[i])

\* WhitelistSkips without the exemption of directories
WhitelistSkipsDirectories(entry, relPath, cfg) ==
    /\ Len(cfg.whitelist) > 0
    /\ ~IsWhitelisted(relPath, cfg)

\* the whitelist test of a loop iteration: TRUE when the entry is skipped
WhitelistSkips(entry, relPath, cfg) ==
    /\ Len(cfg.whitelist) > 0
    /\ ~IsWhitelisted(relPath, cfg)
    /\ ~entry.isDirectory

ScanOk(files) == [ok |-> TRUE, files |-> files]
ScanError == [ok |-> FALSE, files |-> <<>>]

RECURSIVE getAllFiles(_, _, _, _, _)
RECURSIVE ScanEntries(_, _, _, _, _, _, _)
RECURSIVE ScanEntriesSubdirsFirst(_, _, _, _, _, _, _)

\* ScanEntries putting the files of a subdirectory before the files collected
\* so far
ScanEntriesSubdirsFirst(dirPath, entries, i, files, cfg, relativeBase, bad) ==
    IF i > Len(entries) THEN ScanOk(files)
    ELSE
      LET entry == entries[i]
          fullPath == PathJoin(dirPath, entry.name)
          relPath == PathRelative(relativeBase, fullPath)
      IN
        IF IsBlacklisted(relPath, cfg) \/ WhitelistSkips(entry, relPath, cfg)
          THEN ScanEntriesSubdirsFirst(dirPath, entries, i + 1, files, cfg,
                                       relativeBase, bad)
        ELSE IF entry.isDirectory
          THEN LET subFiles == getAllFiles(fullPath, entry.children, cfg,
                                           relativeBase, bad)
               IN IF ~subFiles.ok THEN ScanError
                  ELSE ScanEntriesSubdirsFirst(dirPath, entries, i + 1,
                                               subFiles.files \o files, cfg,
                                               relativeBase, bad)
        ELSE ScanEntriesSubdirsFirst(dirPath, entries, i + 1,
                                     Append(files, fullPath), cfg, relativeBase, bad)

\* The for-of loop of getAllFiles from entry i on, `files` collected so far.
\* A rejected recursive call rejects the whole call.
ScanEntries(dirPath, entries, i, files, cfg, relativeBase, bad) ==
    IF i > Len(entries) THEN ScanOk(files)
    ELSE
      LET entry == entries[i]
          fullPath == PathJoin(dirPath, entry.name)
          relPath == PathRelative(relativeBase, fullPath)
      IN
        IF IsBlacklisted(relPath, cfg)
          THEN ScanEntries(dirPath, entries, i + 1, files, cfg, relativeBase, bad)
        ELSE IF WhitelistSkips(entry, relPath, cfg)
          THEN ScanEntries(dirPath, entries, i + 1, files, cfg, relativeBase, bad)
        ELSE IF entry.isDirectory
          THEN LET subFiles == getAllFiles(fullPath, entry.children, cfg,
                                           relativeBase, bad)
               IN IF ~subFiles.ok THEN ScanError
                  ELSE ScanEntries(dirPath, entries, i + 1,
                                   files \o subFiles.files, cfg, relativeBase, bad)
        ELSE ScanEntries(dirPath, entries, i + 1, Append(files, fullPath),
                         cfg, relativeBase, bad)

\* getAllFiles taking a directory it cannot read for an empty one
getAllFilesUnreadableEmpty(dirPath, entries, cfg, relativeBase, bad) ==
    IF PathRelative(relativeBase, dirPath) \in bad THEN ScanOk(<<>>)
    ELSE ScanEntries(dirPath, entries, 1, <<>>, cfg, relativeBase, bad)

\* getAllFiles(dirPath, config, relativeBase); `entries` is what
\* fsExtra.readdir(dirPath, {withFileTypes: true}) resolves to, `bad` the
\* directories for which it rejects.
getAllFiles(dirPath, entries, cfg, relativeBase, bad) ==
    IF PathRelative(relativeBase, dirPath) \in bad THEN ScanError
    ELSE ScanEntries(dirPath, entries, 1, <<>>, cfg, relativeBase, bad)

\* the built-in configuration of loadConfig and createDefaultConfig
DefaultConfig ==
    [whitelist |-> <<>>,
     blacklist |-> << <<".", "g", "i", "t">>,
                      <<"n", "o", "d", "e", "_", "m", "o", "d", "u", "l", "e", "s">>,
                      <<".", "D", "S", "_", "S", "t", "o", "r", "e">>,
                      <<".", "i", "d", "e", "a">>,
                      <<".", "v", "s", "c", "o", "d", "e">>,
                      <<"p", "a", "c", "k", "a", "g", "e", "-", "l", "o", "c", "k",
                        ".", "j", "s", "o", "n">>,
                      <<"p", "a", "c", "k", "a", "g", "e", ".", "j", "s", "o", "n">>,
                      <<"y", "a", "r", "n", ".", "l", "o", "c", "k">> >>]

----------------------------------------------------------------------------
(* generateFilenameFromPrompt *)

MaxFilenameLen == 50

RECURSIVE DropNonAlnum(_)
\* the rest of s after its leading run of characters outside [a-z0-9]
DropNonAlnum(s) ==
    IF s = <<>> \/ IsAlnum(Head(s)) THEN s ELSE DropNonAlnum(Tail(s))

RECURSIVE ReplaceNonAlnumRuns(_)
\* .replace(/[^a-z0-9]+/g, '-')
ReplaceNonAlnumRuns(s) ==
    IF s = <<>> THEN <<>>
    ELSE IF IsAlnum(Head(s)) THEN <<Head(s)>> \o ReplaceNonAlnumRuns(Tail(s))
    ELSE <<"-">> \o ReplaceNonAlnumRuns(DropNonAlnum(s))

RECURSIVE DropLeadingDashes(_)
DropLeadingDashes(s) ==
    IF s # <<>> /\ Head(s) = "-" THEN DropLeadingDashes(Tail(s)) ELSE s

RECURSIVE DropTrailingDashes(_)
DropTrailingDashes(s) ==
    IF s # <<>> /\ s[Len(s)] = "-"
      THEN DropTrailingDashes(SubSeq(s, 1, Len(s) - 1))
      ELSE s

\* .replace(/^-+|-+$/g, '')
StripDashes(s) == DropTrailingDashes(DropLeadingDashes(s))

\* base.length > 50 ? base.slice(0, 50) : base
Truncate(base) ==
    IF Len(base) > MaxFilenameLen THEN SubSeq(base, 1, MaxFilenameLen) ELSE base

FallbackName == <<"p", "r", "o", "m", "p", "t">>

generateFilenameFromPrompt(prompt) ==
    LET base == StripDashes(ReplaceNonAlnumRuns(ToLowerCase(prompt)))
        name == Truncate(base)
    IN IF name = <<>> THEN FallbackName ELSE name

----------------------------------------------------------------------------
(* The Fuse index and the autocomplete source *)

\* threshold: 0.4 and distance: 100 of the Fuse options; scores are kept in
\* thousandths
FuseThreshold == 400
FuseDistance == 100

\* The score Fuse gives `text` for `pattern`, -1 when it is no match. The
\* comparison is case-insensitive; a text equal to the pattern scores 0;
\* otherwise a text holding the pattern at index idx scores idx / distance,
\* at least 0.001. A match with k >= 1 errors scores at least k / Len(pattern),
\* which is over the threshold for every pattern of at most two characters:
\* the queries of this model are that short, so only exact occurrences match.
FuseScore(pattern, text) ==
    LET p == ToLowerCase(pattern)
        t == ToLowerCase(text)
        idx == IndexOf(t, p)
        score == (idx * 1000) \div FuseDistance
    IN IF p = t THEN 0
       ELSE IF idx < 0 \/ p = <<>> \/ score > FuseThreshold THEN -1
       ELSE IF score < 1 THEN 1 ELSE score

\* results.sort: ascending score, ties by position in the indexed list
FuseBefore(docs, pattern, i, j) ==
    \/ FuseScore(pattern, docs[i]) < FuseScore(pattern, docs[j])
    \/ /\ FuseScore(pattern, docs[i]) = FuseScore(pattern, docs[j])
       /\ i < j

RECURSIVE FuseRank(_, _, _)
\* the documents at the positions `left`, best first
FuseRank(docs, pattern, left) ==
    IF left = {} THEN <<>>
    ELSE LET best == CHOOSE i \in left :
                       \A j \in left \ {i} : FuseBefore(docs, pattern, i, j)
         IN <<docs[best]>> \o FuseRank(docs, pattern, left \ {best})

\* fuse.search(input).map(r => r.item)
FuseSearch(docs, pattern) ==
    FuseRank(docs, pattern,
             {i \in 1..Len(docs) : FuseScore(pattern, docs[i]) >= 0})

Done == <<"D", "o", "n", "e">>

\* AutocompleteSource testing the text for emptiness without trimming it
AutocompleteSourceNoTrim(given, files, index) ==
    LET text == IF given = <<>> THEN <<>> ELSE given[1]
    IN IF text = <<>>
         THEN <<Done>> \o RelativePaths(files)
         ELSE FuseSearch(index, text)

\* The source callback of the autocomplete prompt: source(answersSoFar, given)
\* with `given` <<>> when the prompt passes undefined and <<s>> when it passes
\* the string s; text is given || ''.
AutocompleteSource(given, files, index) ==
    LET text == IF given = <<>> THEN <<>> ELSE given[1]
    IN IF TrimIsEmpty(text)
         THEN <<Done>> \o RelativePaths(files)
         ELSE FuseSearch(index, text)

----------------------------------------------------------------------------
(* The Markdown document *)

\* the template literal "# Prompt\n\n${userPrompt}\n\n---\n\n# Files:\n\n"
DocumentHead(prompt) ==
    <<"#", " ", "P", "r", "o", "m", "p", "t", "\n", "\n">> \o prompt
    \o <<"\n", "\n", "-", "-", "-", "\n", "\n",
         "#", " ", "F", "i", "l", "e", "s", ":", "\n", "\n">>

\* the grave accent (U+0060), which a string literal here cannot hold
Backtick == "U+0060"

\* the template literal of the loop body: "## ", f, two line feeds, a fence
\* of three grave accents, a line feed, fileContent, a line feed, a fence,
\* two line feeds
FileSection(f, fileContent) ==
    <<"#", "#", " ">> \o f \o <<"\n", "\n", Backtick, Backtick, Backtick, "\n">>
    \o fileContent \o <<"\n", Backtick, Backtick, Backtick, "\n", "\n">>

\* path.join(wprDir, filename + ".md")
OutFilePath(name) ==
    PathJoin(PathJoin(Cwd, <<"w", "p", "r">>), name \o <<".", "m", "d">>)

----------------------------------------------------------------------------
(* The environment: directory trees, rule sets, queries, prompts *)

MaxDepth == 2       \* directory levels of the trees of SpecScan
MaxTail == 3        \* characters a prompt of SpecFilename adds to its padding

File(n) == [name |-> n, isDirectory |-> FALSE, children |-> <<>>]
Dir(n, es) == [name |-> n, isDirectory |-> TRUE, children |-> es]

\* relative path of the entry `name` of the directory with relative path dirRel
RelJoin(dirRel, name) ==
    IF dirRel = <<>> THEN name ELSE dirRel \o <<Sep>> \o name

RECURSIVE TreeFiles(_, _)
\* relative paths of all files (entries that are no directory) of a tree
TreeFiles(dirRel, entries) ==
    UNION {IF entries[i].isDirectory
             THEN TreeFiles(RelJoin(dirRel, entries[i].name), entries[i].children)
             ELSE {RelJoin(dirRel, entries[i].name)} : i \in 1..Len(entries)}

RECURSIVE TreeDirs(_, _)
\* relative paths of all directories below the root of a tree
TreeDirs(dirRel, entries) ==
    UNION {IF entries[i].isDirectory
             THEN {RelJoin(dirRel, entries[i].name)}
                  \cup TreeDirs(RelJoin(dirRel, entries[i].name), entries[i].children)
             ELSE {} : i \in 1..Len(entries)}

RECURSIVE ListingsOfLen(_, _)
\* listings of k entries with distinct names
ListingsOfLen(nodes, k) ==
    IF k = 0 THEN {<<>>}
    ELSE UNION {{Append(l, x) : x \in {y \in nodes :
                                  \A i \in 1..Len(l) : l[i].name # y.name}} :
                l \in ListingsOfLen(nodes, k - 1)}

ScanNames == {<<"a">>, <<"b">>}

\* every listing of entries with distinct names, in every order
Listings(nodes) ==
    UNION {ListingsOfLen(nodes, k) : k \in 0..Cardinality(ScanNames)}

RECURSIVE Nodes(_)
\* entries whose subtree has at most d levels
Nodes(d) ==
    {File(n) : n \in ScanNames}
    \cup (IF d <= 1 THEN {}
          ELSE {Dir(n, es) : n \in ScanNames, es \in Listings(Nodes(d - 1))})

ScanTrees == Listings(Nodes(MaxDepth))

ScanRuleLists ==
    {<<>>, << <<"a">> >>, << <<"b", Sep>> >>, << <<"a", Sep, "b">> >>,
     << <<"b">>, <<"a", Sep, "a">> >>}

ScanConfigs ==
    {[whitelist |-> w, blacklist |-> b] : w \in ScanRuleLists, b \in ScanRuleLists}

ScanUnreadable == {{}, {<<"a">>}}

DotGit == <<".", "g", "i", "t">>

RunTrees ==
    {<<File(<<"a">>), Dir(<<"b">>, <<File(<<"a">>), File(Done)>>)>>,
     <<File(Done), File(<<"a", "b">>)>>,
     <<Dir(DotGit, <<File(<<"a">>)>>), File(<<"b">>)>>,
     <<File(<<"a">>), Dir(<<"b">>, <<File(<<"b">>),
                                    Dir(<<"a">>, <<File(<<"a">>)>>)>>)>>}

\* wpr.conf: absent, malformed, or holding a rule set
ConfFiles ==
    {<<>>,
     <<[valid |-> FALSE, value |-> DefaultConfig]>>,
     <<[valid |-> TRUE,
        value |-> [whitelist |-> << <<"b">> >>, blacklist |-> <<>>]]>>,
     <<[valid |-> TRUE,
        value |-> [whitelist |-> <<>>, blacklist |-> << <<"a">> >>]]>>}

\* readdir rejects for no directory, or for one: the root (<<>>) or a
\* directory below it
RunUnreadable(entries) == {{}} \cup {{d} : d \in {<<>>} \cup TreeDirs(<<>>, entries)}

Contents == {<<"x">>, <<"y", "\n">>}

Queries == {<<>>, <<" ">>, <<"a">>, <<"d">>, <<"b", Sep>>}

RunPrompts == {<<>>, <<"T", "e", "s", "t", " ", "R", "u", "n">>}

PromptChars == {"a", "B", "1", " ", "-"}

RECURSIVE StringsOfLen(_, _)
StringsOfLen(chars, k) ==
    IF k = 0 THEN {<<>>}
    ELSE {Append(s, c) : s \in StringsOfLen(chars, k - 1), c \in chars}

Repeat(c, k) == [i \in 1..k |-> c]

\* prompts around the truncation length: a run of letters, then a short tail
FilenamePrompts ==
    {Repeat("a", k) \o t :
        k \in {0} \cup {MaxFilenameLen - d : d \in 0..3},
        t \in UNION {StringsOfLen(PromptChars, n) : n \in 0..MaxTail}}

NoConfig == [whitelist |-> <<>>, blacklist |-> <<>>]

----------------------------------------------------------------------------
(* main *)

\* main's locals before they are assigned, but for the two given
Locals(cfg, prompt) ==
    /\ config = cfg
    /\ allFiles = <<>>
    /\ fuse = <<>>
    /\ input = <<>>
    /\ choices = <<>>
    /\ file = <<>>
    /\ selectedFiles = <<>>
    /\ addingFiles = TRUE
    /\ userPrompt = prompt
    /\ filename = <<>>
    /\ content = <<>>
    /\ readIdx = 0
    /\ outFiles = <<>>
    /\ effects = {}
    /\ failure = ""

Init ==
    /\ argv \in SUBSET {"--uninstall", "--config"}
    /\ pc = "start"
    /\ linkInPath \in BOOLEAN
    /\ confFile \in ConfFiles
    /\ tree \in RunTrees
    /\ disk \in [TreeFiles(<<>>, tree) -> Contents]
    /\ unreadable \in RunUnreadable(tree)
    /\ Locals(NoConfig, <<>>)

\* an await rejects: the rejection leaves main, nothing after it runs
Reject(error) ==
    /\ failure' = error
    /\ pc' = "crashed"

\* uninstall(): remove the symlink (an error is only logged), process.exit(0)
Uninstall ==
    /\ pc = "start"
    /\ "--uninstall" \in argv
    /\ linkInPath' \in {linkInPath, FALSE}
    /\ effects' = effects \cup {"remove"}
    /\ pc' = "exited"
    /\ UNCHANGED <<argv, confFile, tree, disk, unreadable, config, allFiles, fuse,
                   input, choices, file, selectedFiles, addingFiles, userPrompt,
                   filename, content, readIdx, outFiles, failure>>

\* CreateDefaultConfig returning to main without process.exit, main going on
CreateDefaultConfigFallsThrough ==
    /\ pc = "start"
    /\ "--uninstall" \notin argv
    /\ "--config" \in argv
    /\ IF confFile # <<>>
         THEN UNCHANGED <<confFile, effects>>
         ELSE /\ confFile' = <<[valid |-> TRUE, value |-> DefaultConfig]>>
              /\ effects' = effects \cup {"writeConf"}
    /\ pc' = "loadConfig"
    /\ UNCHANGED <<argv, linkInPath, tree, disk, unreadable, config, allFiles,
                   fuse, input, choices, file, selectedFiles, addingFiles,
                   userPrompt, filename, content, readIdx, outFiles, failure>>

\* createDefaultConfig(): write wpr.conf unless it exists, process.exit(0)
CreateDefaultConfig ==
    /\ pc = "start"
    /\ "--uninstall" \notin argv
    /\ "--config" \in argv
    /\ \/ /\ confFile # <<>>
          /\ pc' = "exited"
          /\ UNCHANGED <<confFile, effects, failure>>
       \/ /\ confFile = <<>>
          /\ confFile' = <<[valid |-> TRUE, value |-> DefaultConfig]>>
          /\ effects' = effects \cup {"writeConf"}
          /\ pc' = "exited"
          /\ UNCHANGED failure
       \/ /\ confFile = <<>>
          /\ Reject("WriteError")
          /\ UNCHANGED <<confFile, effects>>
    /\ UNCHANGED <<argv, linkInPath, tree, disk, unreadable, config, allFiles,
                   fuse, input, choices, file, selectedFiles, addingFiles, userPrompt,
                   filename, content, readIdx, outFiles>>

\* ensureInstalled(): when wpr is not in the PATH, ask to install and create
\* the symlink (a failure is only logged)
EnsureInstalled ==
    /\ pc = "start"
    /\ "--uninstall" \notin argv
    /\ "--config" \notin argv
    /\ \/ /\ linkInPath
          /\ UNCHANGED <<linkInPath, effects>>
       \/ /\ ~linkInPath
          /\ \E install \in BOOLEAN :
               IF install
                 THEN /\ linkInPath' \in BOOLEAN
                      /\ effects' = effects \cup {"confirm", "symlink"}
                 ELSE /\ effects' = effects \cup {"confirm"}
                      /\ UNCHANGED linkInPath
    /\ pc' = "loadConfig"
    /\ UNCHANGED <<argv, confFile, tree, disk, unreadable, config, allFiles, fuse,
                   input, choices, file, selectedFiles, addingFiles, userPrompt,
                   filename, content, readIdx, outFiles, failure>>

\* loadConfig(): JSON.parse of wpr.conf, or the built-in defaults
LoadConfig ==
    /\ pc = "loadConfig"
    /\ effects' = effects \cup {"loadConfig"}
    /\ IF confFile = <<>>
         THEN config' = DefaultConfig /\ pc' = "scan" /\ UNCHANGED failure
       ELSE IF confFile[1].valid
         THEN config' = confFile[1].value /\ pc' = "scan" /\ UNCHANGED failure
       ELSE Reject("ConfigParseError") /\ UNCHANGED config
    /\ UNCHANGED <<argv, linkInPath, confFile, tree, disk, unreadable, allFiles,
                   fuse, input, choices, file, selectedFiles, addingFiles, userPrompt,
                   filename, content, readIdx, outFiles>>

\* const allFiles = await getAllFiles(process.cwd(), config)
Scan ==
    /\ pc = "scan"
    /\ effects' = effects \cup {"scan"}
    /\ LET scanned == getAllFiles(Cwd, tree, config, Cwd, unreadable)
       IN IF scanned.ok
            THEN allFiles' = scanned.files /\ pc' = "index" /\ UNCHANGED failure
            ELSE Reject("ScanError") /\ UNCHANGED allFiles
    /\ UNCHANGED <<argv, linkInPath, confFile, tree, disk, unreadable, config,
                   fuse, input, choices, file, selectedFiles, addingFiles, userPrompt,
                   filename, content, readIdx, outFiles>>

\* new Fuse(relative paths); selectedFiles = []; addingFiles = true
BuildIndex ==
    /\ pc = "index"
    /\ fuse' = RelativePaths(allFiles)
    /\ selectedFiles' = <<>>
    /\ addingFiles' = TRUE
    /\ pc' = "loop"
    /\ UNCHANGED <<argv, linkInPath, confFile, tree, disk, unreadable, config,
                   allFiles, input, choices, file, userPrompt, filename, content,
                   readIdx, outFiles, effects, failure>>

\* while (addingFiles): inquirer.prompt opens the autocomplete prompt, which
\* calls source with no input
OpenPrompt ==
    /\ pc = "loop"
    /\ addingFiles
    /\ input' = <<>>
    /\ choices' = AutocompleteSource(input', allFiles, fuse)
    /\ effects' = effects \cup {"query"}
    /\ pc' = "asking"
    /\ UNCHANGED <<argv, linkInPath, confFile, tree, disk, unreadable, config,
                   allFiles, fuse, file, selectedFiles, addingFiles, userPrompt,
                   filename, content, readIdx, outFiles, failure>>

\* the user edits the line: the prompt calls source with the text typed
TypeQuery ==
    /\ pc = "asking"
    /\ \E q \in Queries : input' = <<q>>
    /\ choices' = AutocompleteSource(input', allFiles, fuse)
    /\ UNCHANGED <<argv, pc, linkInPath, confFile, tree, disk, unreadable, config,
                   allFiles, fuse, file, selectedFiles, addingFiles, userPrompt,
                   filename, content, readIdx, outFiles, effects, failure>>

\* SelectionUpdate pushing without the includes test
SelectionUpdateNoDedup(chosen) ==
    IF chosen = Done
      THEN addingFiles' = FALSE /\ UNCHANGED selectedFiles
    ELSE IF chosen # <<>>
      THEN selectedFiles' = Append(selectedFiles, chosen) /\ UNCHANGED addingFiles
    ELSE UNCHANGED <<selectedFiles, addingFiles>>

\* SelectionUpdate ending the loop also when a selected path is chosen again
SelectionUpdateStopsOnRepeat(chosen) ==
    IF chosen = Done \/ ArrayIncludes(selectedFiles, chosen)
      THEN addingFiles' = FALSE /\ UNCHANGED selectedFiles
    ELSE IF chosen # <<>>
      THEN selectedFiles' = Append(selectedFiles, chosen) /\ UNCHANGED addingFiles
    ELSE UNCHANGED <<selectedFiles, addingFiles>>

\* SelectionUpdate moving a path chosen again to the end
SelectionUpdateMovesToEnd(chosen) ==
    IF chosen = Done
      THEN addingFiles' = FALSE /\ UNCHANGED selectedFiles
    ELSE IF chosen # <<>>
      THEN /\ selectedFiles' =
                Append(SelectSeq(selectedFiles, LAMBDA f : f # chosen), chosen)
           /\ UNCHANGED addingFiles
    ELSE UNCHANGED <<selectedFiles, addingFiles>>

\* SelectionUpdate taking "Done" for a path when a candidate has that name
SelectionUpdateDoneAsPath(chosen) ==
    IF chosen = Done /\ ~ArrayIncludes(fuse, chosen)
      THEN addingFiles' = FALSE /\ UNCHANGED selectedFiles
    ELSE IF chosen # <<>> /\ ~ArrayIncludes(selectedFiles, chosen)
      THEN selectedFiles' = Append(selectedFiles, chosen) /\ UNCHANGED addingFiles
    ELSE UNCHANGED <<selectedFiles, addingFiles>>

\* the body of the loop after the prompt has answered with `chosen`
SelectionUpdate(chosen) ==
    IF chosen = Done
      THEN addingFiles' = FALSE /\ UNCHANGED selectedFiles
    ELSE IF chosen # <<>> /\ ~ArrayIncludes(selectedFiles, chosen)
      THEN selectedFiles' = Append(selectedFiles, chosen) /\ UNCHANGED addingFiles
    ELSE UNCHANGED <<selectedFiles, addingFiles>>

\* the user picks one of the offered choices: the prompt resolves with it
Choose ==
    /\ pc = "asking"
    /\ \E i \in 1..Len(choices) :
         /\ file' = choices[i]
         /\ SelectionUpdate(choices[i])
    /\ pc' = "loop"
    /\ UNCHANGED <<argv, linkInPath, confFile, tree, disk, unreadable, config,
                   allFiles, fuse, input, choices, userPrompt, filename, content,
                   readIdx, outFiles, effects, failure>>

\* the input prompt 'Enter the prompt:' and its answer
AskPrompt ==
    /\ pc = "loop"
    /\ ~addingFiles
    /\ userPrompt' \in RunPrompts
    /\ effects' = effects \cup {"prompt"}
    /\ pc' = "derive"
    /\ UNCHANGED <<argv, linkInPath, confFile, tree, disk, unreadable, config,
                   allFiles, fuse, input, choices, file, selectedFiles, addingFiles,
                   filename, content, readIdx, outFiles, failure>>

\* filename = generateFilenameFromPrompt(userPrompt); ensureDir(wprDir);
\* content = the prompt section
PrepareOutput ==
    /\ pc = "derive"
    /\ filename' = generateFilenameFromPrompt(userPrompt)
    /\ effects' = effects \cup {"ensureDir"}
    /\ \/ /\ content' = DocumentHead(userPrompt)
          /\ readIdx' = 1
          /\ pc' = "assemble"
          /\ UNCHANGED failure
       \/ /\ Reject("WriteError")
          /\ UNCHANGED <<content, readIdx>>
    /\ UNCHANGED <<argv, linkInPath, confFile, tree, disk, unreadable, config,
                   allFiles, fuse, input, choices, file, selectedFiles, addingFiles,
                   userPrompt, outFiles>>

\* ReadFileOk walking selectedFiles from its end
ReadFileOkReversed ==
    /\ pc = "assemble"
    /\ readIdx <= Len(selectedFiles)
    /\ LET f == selectedFiles[Len(selectedFiles) + 1 - readIdx]
       IN content' = content \o FileSection(f, disk[f])
    /\ readIdx' = readIdx + 1
    /\ effects' = effects \cup {"read"}
    /\ UNCHANGED <<argv, pc, linkInPath, confFile, tree, disk, unreadable, config,
                   allFiles, fuse, input, choices, file, selectedFiles,
                   addingFiles, userPrompt, filename, outFiles, failure>>

\* one iteration of the for-of loop: readFile resolves
ReadFileOk ==
    /\ pc = "assemble"
    /\ readIdx <= Len(selectedFiles)
    /\ LET f == selectedFiles[readIdx]
       IN content' = content \o FileSection(f, disk[f])
    /\ readIdx' = readIdx + 1
    /\ effects' = effects \cup {"read"}
    /\ UNCHANGED <<argv, pc, linkInPath, confFile, tree, disk, unreadable, config,
                   allFiles, fuse, input, choices, file, selectedFiles, addingFiles,
                   userPrompt, filename, outFiles, failure>>

\* ReadFileFails with the rejection caught and the loop going on
ReadFileFailsSkipped ==
    /\ pc = "assemble"
    /\ readIdx <= Len(selectedFiles)
    /\ failure' = "ReadError"
    /\ readIdx' = readIdx + 1
    /\ effects' = effects \cup {"read"}
    /\ UNCHANGED <<argv, pc, linkInPath, confFile, tree, disk, unreadable, config,
                   allFiles, fuse, input, choices, file, selectedFiles,
                   addingFiles, userPrompt, filename, content, outFiles>>

\* one iteration of the for-of loop: readFile rejects (the file is gone or
\* unreadable by now)
ReadFileFails ==
    /\ pc = "assemble"
    /\ readIdx <= Len(selectedFiles)
    /\ Reject("ReadError")
    /\ effects' = effects \cup {"read"}
    /\ UNCHANGED <<argv, linkInPath, confFile, tree, disk, unreadable, config,
                   allFiles, fuse, input, choices, file, selectedFiles, addingFiles,
                   userPrompt, filename, content, readIdx, outFiles>>

\* WriteFile not waiting for the for-of loop to end
WriteFileBeforeReads ==
    /\ pc = "assemble"
    /\ \/ /\ outFiles' = Append(outFiles, [path |-> OutFilePath(filename),
                                          data |-> content])
          /\ effects' = effects \cup {"write"}
          /\ pc' = "done"
          /\ UNCHANGED failure
       \/ /\ Reject("WriteError")
          /\ UNCHANGED <<outFiles, effects>>
    /\ UNCHANGED <<argv, linkInPath, confFile, tree, disk, unreadable, config,
                   allFiles, fuse, input, choices, file, selectedFiles, addingFiles,
                   userPrompt, filename, content, readIdx>>

\* await fsExtra.writeFile(outFile, content, 'utf-8')
WriteFile ==
    /\ pc = "assemble"
    /\ readIdx > Len(selectedFiles)
    /\ \/ /\ outFiles' = Append(outFiles, [path |-> OutFilePath(filename),
                                          data |-> content])
          /\ effects' = effects \cup {"write"}
          /\ pc' = "done"
          /\ UNCHANGED failure
       \/ /\ Reject("WriteError")
          /\ UNCHANGED <<outFiles, effects>>
    /\ UNCHANGED <<argv, linkInPath, confFile, tree, disk, unreadable, config,
                   allFiles, fuse, input, choices, file, selectedFiles, addingFiles,
                   userPrompt, filename, content, readIdx>>

Next ==
    \/ Uninstall
    \/ CreateDefaultConfig
    \/ EnsureInstalled
    \/ LoadConfig
    \/ Scan
    \/ BuildIndex
    \/ OpenPrompt
    \/ TypeQuery
    \/ Choose
    \/ AskPrompt
    \/ PrepareOutput
    \/ ReadFileOk
    \/ ReadFileFails
    \/ WriteFile

Spec == Init /\ [][Next]_vars

\* getAllFiles alone, over every tree and rule set of the bounds
ScanInit ==
    /\ argv = {}
    /\ pc = "scan"
    /\ linkInPath = TRUE
    /\ confFile = <<>>
    /\ tree \in ScanTrees
    /\ disk = [f \in TreeFiles(<<>>, tree) |-> <<>>]
    /\ unreadable \in ScanUnreadable
    /\ \E cfg \in ScanConfigs : Locals(cfg, <<>>)

SpecScan == ScanInit /\ [][Scan]_vars

\* generateFilenameFromPrompt alone, over the prompts of the bounds
FilenameInit ==
    /\ argv = {}
    /\ pc = "derive"
    /\ linkInPath = TRUE
    /\ confFile = <<>>
    /\ tree = <<>>
    /\ disk = [f \in {} |-> <<>>]
    /\ unreadable = {}
    /\ \E prompt \in FilenamePrompts : Locals(NoConfig, prompt)

SpecFilename == FilenameInit /\ [][PrepareOutput]_vars

----------------------------------------------------------------------------
(* Properties *)

\* the candidate set: the relative paths of the files the scan returned
CandidateSet == {PathRelative(Cwd, allFiles[j]) : j \in 1..Len(allFiles)}

\* one iteration of the selection loop ends: the prompt has answered
IterationEnds == pc = "asking" /\ pc' = "loop"

\* C1: selectedFiles holds only relative paths of files of the candidate set
\* the scan produced, and holds no path twice.
C1_SelectionWithinCandidates ==
    /\ \A i \in 1..Len(selectedFiles) : selectedFiles[i] \in CandidateSet
    /\ \A i, j \in 1..Len(selectedFiles) :
         i # j => selectedFiles[i] # selectedFiles[j]

\* two paths are selected and the last answer chose the first of them again
C1_Witness ==
    /\ pc = "loop"
    /\ Len(selectedFiles) >= 2
    /\ file = selectedFiles[1]

\* C2: the session leaves Selecting only by the choice of "Done": an
\* iteration that chose "Done" ends the loop, an iteration that chose anything
\* else keeps it going, and between iterations the loop asks again exactly
\* while it is Selecting.
C2_LeavesSelectingOnlyByDone ==
    /\ [][/\ (addingFiles /\ ~addingFiles') => (IterationEnds /\ file' = Done)
          /\ (IterationEnds /\ file' = Done) => ~addingFiles'
          /\ (IterationEnds /\ file' # Done) => addingFiles']_vars
    /\ [](pc = "loop" => /\ addingFiles <=> ENABLED OpenPrompt
                         /\ ~addingFiles <=> ENABLED AskPrompt)

\* the loop ended by "Done" with a path selected
C2_Witness ==
    /\ pc = "loop"
    /\ ~addingFiles
    /\ file = Done
    /\ Len(selectedFiles) >= 1

\* C3: an iteration that chose a path already selected leaves selectedFiles
\* as it was; an iteration that chose a path not yet selected (a choice other
\* than the reserved "Done") appends it and keeps the earlier entries in place.
C3_IdempotentInsertionOrdered ==
    [][IterationEnds =>
         /\ ArrayIncludes(selectedFiles, file') => selectedFiles' = selectedFiles
         /\ (~ArrayIncludes(selectedFiles, file') /\ file' # Done) =>
              /\ Len(selectedFiles') = Len(selectedFiles) + 1
              /\ selectedFiles'[Len(selectedFiles')] = file'
              /\ SubSeq(selectedFiles', 1, Len(selectedFiles)) = selectedFiles]_vars

\* the last answer chose the first of two selected paths again
C3_Witness ==
    /\ pc = "loop"
    /\ addingFiles
    /\ Len(selectedFiles) >= 2
    /\ file = selectedFiles[1]
    /\ input # <<>>

\* the Query of the iteration: the text passed to source, '' for undefined
Query == IF input = <<>> THEN <<>> ELSE input[1]

\* C4 as stated: the list offered is "Done" and the candidates for the empty
\* Query, and the search result for every Query of length at least 1.
C4_ListByEmptyQuery ==
    pc = "asking" =>
      choices = IF Query = <<>>
                  THEN <<Done>> \o RelativePaths(allFiles)
                  ELSE FuseSearch(fuse, Query)

\* C4 amended: the list offered is "Done" and the candidates, in the order
\* of the scan, for every Query that is empty or holds white space only, and
\* the search result, with no "Done" put before it, for every other Query.
C4_ListByBlankQuery ==
    pc = "asking" =>
      IF \A i \in 1..Len(Query) : Query[i] \in {" ", "\t", "\n"}
        THEN /\ Len(choices) = Len(allFiles) + 1
             /\ choices[1] = Done
             /\ \A j \in 1..Len(allFiles) :
                  choices[j + 1] = PathRelative(Cwd, allFiles[j])
        ELSE choices = FuseSearch(fuse, Query)

\* a Query of one blank was answered with "Done" and the candidates
C4_Witness ==
    /\ pc = "asking"
    /\ input = << <<" ">> >>
    /\ Len(choices) >= 3

\* b occurs in s
HasSubstring(s, b) ==
    \E k \in 0..(Len(s) - Len(b)) : \A m \in 1..Len(b) : s[k + m] = b[m]

\* s begins with w
HasPrefix(s, w) ==
    /\ Len(w) <= Len(s)
    /\ \A m \in 1..Len(w) : s[m] = w[m]

BlacklistHit(f) ==
    \E i \in 1..Len(config.blacklist) : HasSubstring(f, config.blacklist[i])

WhitelistHit(f) ==
    \E i \in 1..Len(config.whitelist) : HasPrefix(f, config.whitelist[i])

\* getAllFiles has returned
Scanned == pc = "index"

\* C5: no file whose relative path holds a blacklist entry as a substring is
\* in the scan result, whether or not the path starts with a whitelist entry.
C5_BlacklistPrecedence ==
    Scanned =>
      \A f \in TreeFiles(<<>>, tree) : BlacklistHit(f) => f \notin CandidateSet

\* the tree holds a file that is blacklisted and whitelisted at once, beside
\* a file that the scan returned
C5_Witness ==
    /\ Scanned
    /\ \E f \in TreeFiles(<<>>, tree) : BlacklistHit(f) /\ WhitelistHit(f)
    /\ allFiles # <<>>

\* C6: a file that is not blacklisted is in the scan result exactly when the
\* whitelist is empty or the file's relative path starts with a whitelist
\* entry, at whatever depth below directories that match no whitelist entry.
C6_WhitelistPrefix ==
    Scanned =>
      \A f \in TreeFiles(<<>>, tree) :
        ~BlacklistHit(f) =>
          (f \in CandidateSet <=> (config.whitelist = <<>> \/ WhitelistHit(f)))

\* the scan returned a file below a directory that matches no whitelist entry,
\* and left out a file that is not blacklisted
C6_Witness ==
    /\ Scanned
    /\ config.whitelist # <<>>
    /\ \E f \in CandidateSet :
         \E k \in 2..Len(f) : f[k] = Sep /\ ~WhitelistHit(SubSeq(f, 1, k - 1))
    /\ \E f \in TreeFiles(<<>>, tree) : ~BlacklistHit(f) /\ f \notin CandidateSet

\* the prompt lowercased, its runs of other characters replaced, its ends
\* stripped of "-"
Sanitized == StripDashes(ReplaceNonAlnumRuns(ToLowerCase(userPrompt)))

\* C7: the filename has at most 50 characters and neither begins nor ends
\* with "-"; it has exactly 50 when the sanitized prompt is longer than that,
\* and is "prompt" when the prompt has no letter or digit.
C7_FilenameShape ==
    pc # "derive" =>
      /\ Len(filename) <= MaxFilenameLen
      /\ filename # <<>>
      /\ filename[1] # "-"
      /\ filename[Len(filename)] # "-"
      /\ Len(Sanitized) > MaxFilenameLen => Len(filename) = MaxFilenameLen
      /\ (\A i \in 1..Len(userPrompt) : ~IsAlnum(LowerChar(userPrompt[i])))
           => filename = FallbackName

\* C8: when the read of a selected file has failed, the run has ended, no
\* output file has been written, and none is written afterwards.
C8_NoDocumentAfterReadError ==
    failure = "ReadError" =>
      /\ pc = "crashed"
      /\ outFiles = <<>>
      /\ "write" \notin effects

\* a read failed after the sections of earlier files had been assembled
C8_Witness ==
    /\ failure = "ReadError"
    /\ readIdx >= 2
    /\ Len(content) > Len(DocumentHead(userPrompt))

RECURSIVE FileSections(_)
\* one section for each entry of sel, in the order of sel
FileSections(sel) ==
    IF sel = <<>> THEN <<>>
    ELSE FileSection(sel[1], disk[sel[1]]) \o FileSections(Tail(sel))

\* C9: a run that succeeds has written one document: the prompt section with
\* the prompt, then one section for each selected path, in the order of the
\* selection, with that path as label and that file's content. No run writes
\* more than one document.
C9_DocumentOfSelection ==
    /\ Len(outFiles) <= 1
    /\ pc = "done" =>
         /\ Len(outFiles) = 1
         /\ outFiles[1].data = DocumentHead(userPrompt) \o FileSections(selectedFiles)

\* a run succeeded with two files selected
C9_Witness ==
    /\ pc = "done"
    /\ Len(selectedFiles) >= 2
    /\ userPrompt # <<>>

\* the operations of the interactive core
CoreEffects == {"loadConfig", "scan", "query", "prompt", "ensureDir", "read", "write"}

\* C10: a run started with --uninstall or --config performs no operation of
\* the interactive core and never reaches a position of main past the flags.
C10_FlagsBypassCore ==
    (argv # {}) =>
      /\ effects \cap CoreEffects = {}
      /\ pc \in {"start", "exited", "crashed"}
      /\ outFiles = <<>>

\* a --config run wrote wpr.conf and exited
C10_Witness ==
    /\ argv = {"--config"}
    /\ pc = "exited"
    /\ "writeConf" \in effects

\* the input prompt is requested by this step
PromptRequested == "prompt" \notin effects /\ "prompt" \in effects'

\* C11: the phases of a run follow one another: a selection query is asked
\* only after the scan has returned; while a selection query is outstanding no
\* other question is asked and nothing is read or written; the prompt is
\* requested only when the loop has finished, at most once in a run and once
\* in every run that succeeds; a selected file is read only after the prompt
\* was entered; the output file is written only after every selected file was
\* read; and once the loop has finished selectedFiles never changes.
C11_PhasesInOrder ==
    /\ []("query" \in effects =>
            "scan" \in effects /\ pc \in {"asking", "loop", "derive", "assemble",
                                          "done", "crashed"})
    /\ [](pc = "asking" => effects \cap {"prompt", "ensureDir", "read", "write"} = {})
    /\ [][pc = "asking" => effects' = effects]_vars
    /\ [][PromptRequested => (~addingFiles /\ pc = "loop" /\ pc' = "derive")]_vars
    /\ [][pc' = "derive" => PromptRequested]_vars
    /\ []("prompt" \in effects => ~addingFiles /\ pc \notin {"loop", "asking"})
    /\ [](pc = "done" => "prompt" \in effects)
    /\ []("read" \in effects => "prompt" \in effects)
    /\ []("write" \in effects => /\ readIdx = Len(selectedFiles) + 1
                                 /\ Len(outFiles) = 1)
    /\ [][~addingFiles => selectedFiles' = selectedFiles]_vars

\* a run went through every phase: it asked to install, selected a file with
\* a typed query, took the prompt, read the file and wrote the document
C11_Witness ==
    /\ pc = "done"
    /\ {"confirm", "scan", "query", "prompt", "read", "write"} \subseteq effects
    /\ Len(selectedFiles) = 1
    /\ input # <<>>

\* C12: an iteration that chose the string "Done" ends the loop and leaves
\* selectedFiles as it was, whatever list the choice came from and whether or
\* not a candidate file has that name; selectedFiles never holds "Done".
C12_DoneIsNeverSelected ==
    /\ [][(IterationEnds /\ file' = Done) =>
            (~addingFiles' /\ selectedFiles' = selectedFiles)]_vars
    /\ [](\A i \in 1..Len(selectedFiles) : selectedFiles[i] # Done)

\* a candidate file is named "Done"; the search for the query "d" returned
\* it, it was chosen, and the loop ended with another file selected
C12_Witness ==
    /\ pc = "loop"
    /\ Done \in CandidateSet
    /\ input = << <<"d">> >>
    /\ choices = <<Done>>
    /\ file = Done
    /\ ~addingFiles
    /\ Len(selectedFiles) >= 1

\* the directories getAllFiles reads: the root and every directory below it
\* whose relative path holds no blacklist entry
ReadDirs == {<<>>} \cup {d \in TreeDirs(<<>>, tree) : ~BlacklistHit(d)}

\* C13: when readdir fails for a directory the scan reads, at whatever depth,
\* getAllFiles has returned nothing and the run has ended with that error:
\* no candidate set and no index exist, no query was asked, nothing was
\* selected or written.
C13_ScanErrorAborts ==
    ("scan" \in effects /\ unreadable \cap ReadDirs # {}) =>
      /\ pc = "crashed"
      /\ failure = "ScanError"
      /\ allFiles = <<>>
      /\ fuse = <<>>
      /\ choices = <<>>
      /\ selectedFiles = <<>>
      /\ outFiles = <<>>
      /\ effects \cap {"query", "prompt", "ensureDir", "read", "write"} = {}

\* readdir failed two levels below the root, after the scan had passed two
\* eligible files
C13_Witness ==
    /\ failure = "ScanError"
    /\ unreadable = {<<"b", Sep, "a">>}
    /\ config = DefaultConfig
    /\ {<<"a">>, <<"b", Sep, "b">>} \subseteq TreeFiles(<<>>, tree)

RECURSIVE DescendingWalk(_, _)
\* the walk that descends into every directory and tests the rules against
\* the relative path of each file only: the files it keeps, in its order
DescendingWalk(dirRel, entries) ==
    IF entries = <<>> THEN <<>>
    ELSE LET rel == RelJoin(dirRel, entries[1].name)
             here == IF entries[1].isDirectory
                       THEN DescendingWalk(rel, entries[1].children)
                     ELSE IF /\ ~BlacklistHit(rel)
                             /\ (config.whitelist = <<>> \/ WhitelistHit(rel))
                       THEN <<rel>>
                     ELSE <<>>
         IN here \o DescendingWalk(dirRel, Tail(entries))

\* C14: the scan, which skips a blacklisted directory with all below it,
\* returns the same sequence of files as the walk that descends into every
\* directory of the tree and tests the blacklist against each file only.
C14_PruningEqualsDescending ==
    Scanned => RelativePaths(allFiles) = DescendingWalk(<<>>, tree)

\* the scan skipped a blacklisted directory that holds a file, and returned
\* a file from elsewhere
C14_Witness ==
    /\ Scanned
    /\ allFiles # <<>>
    /\ \E d \in TreeDirs(<<>>, tree) :
         /\ BlacklistHit(d)
         /\ \E f \in TreeFiles(<<>>, tree) : HasPrefix(f, d \o <<Sep>>)

RECURSIVE IndexPath(_, _)
\* where the traversal meets the file with relative path rel: the index of
\* its top directory in the listing `entries`, then the index within that
\* directory, down to the index of the file in its own directory
IndexPath(entries, rel) ==
    LET i == CHOOSE k \in 1..Len(entries) :
               \/ rel = entries[k].name
               \/ HasPrefix(rel, entries[k].name \o <<Sep>>)
    IN IF rel = entries[i].name THEN <<i>>
       ELSE <<i>> \o IndexPath(entries[i].children,
                               SubSeq(rel, Len(entries[i].name) + 2, Len(rel)))

RECURSIVE ComesBefore(_, _)
\* depth-first order: at the first directory where two files part, the one
\* under the earlier entry of the listing comes first
ComesBefore(p, q) ==
    /\ p # <<>>
    /\ q # <<>>
    /\ \/ p[1] < q[1]
       \/ p[1] = q[1] /\ ComesBefore(Tail(p), Tail(q))

\* C15: the scan result is in depth-first traversal order and is not sorted
\* again: each file comes before every file the traversal meets later (within
\* a directory in the order of the listing), and the files returned from below
\* a subdirectory stand next to one another.
C15_DepthFirstOrder ==
    Scanned =>
      LET rel == RelativePaths(allFiles)
      IN /\ \A i \in 1..(Len(rel) - 1) :
              ComesBefore(IndexPath(tree, rel[i]), IndexPath(tree, rel[i + 1]))
         /\ \A d \in TreeDirs(<<>>, tree) : \A i, j, k \in 1..Len(rel) :
              (/\ i < k /\ k < j
               /\ HasPrefix(rel[i], d \o <<Sep>>)
               /\ HasPrefix(rel[j], d \o <<Sep>>)) => HasPrefix(rel[k], d \o <<Sep>>)

\* the listing put the directory b, holding b and a in that order, before the
\* file a: the scan returned them in that order, which no sort would give
C15_Witness ==
    /\ Scanned
    /\ RelativePaths(allFiles) =
         << <<"b", Sep, "b">>, <<"b", Sep, "a">>, <<"a">> >>

====
